---- MODULE Spec2Model ----
(***************************************************************************)
(* Model of src/services/geminiService.ts: the adapter between the photo   *)
(* editor and the generative image model.  One behaviour is one invocation *)
(* of a public generation operation: credential read, file read/encode,    *)
(* prompt construction, one generateContent round trip, and interpretation *)
(* of the response.  JavaScript strings are TLA+ strings; the operators    *)
(* below compute split, match, trim and template interpolation on them the *)
(* way the code does.                                                      *)
(***************************************************************************)
EXTENDS Integers, Sequences, FiniteSets, TLC

VARIABLES
    apiKey,     \* sessionStorage item 'gemini-api-key' (Null when absent)
    pc,         \* position of the call chain: idle, reading, awaiting, done
    call,       \* arguments of the invoked operation
    reads,      \* number of FileReader.readAsDataURL calls made by the call
    dataUrl,    \* reader.result once the FileReader has loaded
    imagePart,  \* result of fileToPart once it has resolved
    requests,   \* generateContent requests issued by the call, in order
    response,   \* the response generateContent resolved with
    returned,   \* value the public operation resolved with (Undefined if none)
    thrown,     \* failure the public operation rejected with (Undefined if none)
    log         \* console entries emitted so far: [level, msg]

vars == <<apiKey, pc, call, reads, dataUrl, imagePart, requests, response, returned, thrown, log>>

----------------------------------------------------------------------------
(* JavaScript values *)

\* undefined and null; distinct from every string the model otherwise uses
Undefined == "<undefined>"
Null == "<null>"

\* an absent object (an optional field that is not there)
Absent == [defined |-> FALSE]

\* truthiness of a string-or-nullish value: `if (v)`, `v || ''`, `!v`
Truthy(v) == v # Undefined /\ v # Null /\ v # ""

\* `${v}` inside a template literal
Str(v) == IF v = Undefined THEN "undefined" ELSE IF v = Null THEN "null" ELSE v

\* positions of the character c in s
Positions(s, c) == {i \in 1..Len(s) : SubSeq(s, i, i) = c}

Min(S) == CHOOSE m \in S : \A n \in S : m <= n
Max(S) == CHOOSE m \in S : \A n \in S : m >= n

\* white space removed by String.prototype.trim (the characters the model uses)
WhiteSpace == {" ", "\n", "\t"}

\* s.trim()
Trim(s) ==
    LET ink == {i \in 1..Len(s) : SubSeq(s, i, i) \notin WhiteSpace}
    IN  IF ink = {} THEN "" ELSE SubSeq(s, Min(ink), Max(ink))

----------------------------------------------------------------------------
(* getGeminiClient *)

ApiKeyNotFound == "API key not found. Please set your API key."

\* a variant that tests only for a missing item
getGeminiClient_NullOnly(key) == IF key = Null THEN ApiKeyNotFound ELSE Undefined

\* the failure getGeminiClient throws for the stored key, or Undefined
getGeminiClient(key) == IF ~Truthy(key) THEN ApiKeyNotFound ELSE Undefined

----------------------------------------------------------------------------
(* fileToPart *)

\* what FileReader.readAsDataURL packages for a file of this type and payload
DataUrlOf(type, payload) == "data:" \o type \o ";base64," \o payload

\* the strings reader.result can hold for a file: the packaged data URL, and
\* for an empty file also the bare "data:" some engines produce
ReaderResults(file) ==
    {DataUrlOf(file.type, file.payload)}
        \cup (IF file.payload = "" THEN {"data:"} ELSE {})

\* dataUrl.split(','): the number of pieces, and pieces 0 and 1
SplitComma(s) ==
    LET commas == Positions(s, ",")
        first  == IF commas = {} THEN Len(s) + 1 ELSE Min(commas)
        rest   == {i \in commas : i > first}
        second == IF rest = {} THEN Len(s) + 1 ELSE Min(rest)
    IN  [length |-> Cardinality(commas) + 1,
         p0     |-> SubSeq(s, 1, first - 1),
         p1     |-> IF commas = {} THEN Undefined ELSE SubSeq(s, first + 1, second - 1)]

\* s.match(/:(.*?);/): the leftmost ':' that has a ';' after it, and the
\* shortest run up to the next ';' as group 1
MatchMime(s) ==
    LET colons == {i \in Positions(s, ":") : \E j \in Positions(s, ";") : j > i}
    IN  IF colons = {} THEN [matched |-> FALSE, group |-> Undefined]
        ELSE LET i == Min(colons)
                 j == Min({k \in Positions(s, ";") : k > i})
             IN  [matched |-> TRUE, group |-> SubSeq(s, i + 1, j - 1)]

InvalidDataUrl == "Invalid data URL"
CouldNotParseMime == "Could not parse MIME type from data URL"

\* the part of fileToPart after the reader has resolved with the data URL
fileToPart(url) ==
    LET arr == SplitComma(url)
        mimeMatch == MatchMime(arr.p0)
    IN  IF arr.length < 2
        THEN [thrown |-> InvalidDataUrl, inlineData |-> Absent]
        ELSE IF ~mimeMatch.matched \/ ~Truthy(mimeMatch.group)
        THEN [thrown |-> CouldNotParseMime, inlineData |-> Absent]
        ELSE [thrown |-> Undefined,
              inlineData |-> [defined |-> TRUE, mimeType |-> mimeMatch.group, data |-> arr.p1]]

----------------------------------------------------------------------------
(* handleApiResponse *)

\* response.promptFeedback?.blockReason
BlockReasonOf(resp) ==
    IF resp.promptFeedback.defined THEN resp.promptFeedback.blockReason ELSE Undefined

\* response.candidates?.[0]
FirstCandidate(resp) ==
    IF resp.candidates.defined /\ Len(resp.candidates.items) >= 1
    THEN resp.candidates.items[1] ELSE Absent

\* response.candidates?.[0]?.content?.parts
FirstParts(resp) ==
    LET c == FirstCandidate(resp)
    IN  IF c.defined /\ c.content.defined /\ c.content.parts.defined
        THEN c.content.parts ELSE Absent

\* ...?.find(part => part.inlineData): the first part carrying inline data
ImagePartFromResponse(resp) ==
    LET parts == FirstParts(resp)
    IN  IF ~parts.defined THEN Absent
        ELSE LET hits == {i \in 1..Len(parts.items) : parts.items[i].inlineData.defined}
             IN  IF hits = {} THEN Absent ELSE parts.items[Min(hits)]

\* response.candidates?.[0]?.finishReason
FinishReasonOf(resp) ==
    LET c == FirstCandidate(resp) IN IF c.defined THEN c.finishReason ELSE Undefined

LogEntry(level, msg) == [level |-> level, msg |-> msg]

\* lines 44-49: the blocked-prompt branch
BlockedMessage(resp) ==
    "Request was blocked. Reason: " \o Str(resp.promptFeedback.blockReason) \o ". "
        \o (IF Truthy(resp.promptFeedback.blockReasonMessage)
            THEN resp.promptFeedback.blockReasonMessage ELSE "")

\* a variant that throws without writing to the console
BlockedBranch_Silent(resp) ==
    [returned |-> Undefined, thrown |-> BlockedMessage(resp), log |-> <<>>]

BlockedBranch(resp) ==
    [returned |-> Undefined, thrown |-> BlockedMessage(resp),
     log |-> <<LogEntry("error", BlockedMessage(resp))>>]

\* lines 54-58: the image branch
ImageBranch(part, context) ==
    [returned |-> "data:" \o Str(part.inlineData.mimeType) \o ";base64," \o Str(part.inlineData.data),
     thrown |-> Undefined,
     log |-> <<LogEntry("log", "Received image data (" \o Str(part.inlineData.mimeType)
                                   \o ") for " \o context)>>]

\* lines 62-66: the abnormal-finish branch
AbnormalMessage(finishReason, context) ==
    "Image generation for " \o context \o " stopped unexpectedly. Reason: "
        \o finishReason \o ". This often relates to safety settings."

AbnormalBranch(finishReason, context) ==
    [returned |-> Undefined, thrown |-> AbnormalMessage(finishReason, context),
     log |-> <<LogEntry("error", AbnormalMessage(finishReason, context))>>]

\* lines 68-75: the no-image branch
RephraseHint ==
    "This can happen due to safety filters or if the request is too complex. Please try rephrasing your prompt to be more direct."

\* a variant that forgets to trim
TextFeedback_Untrimmed(resp) == resp.text

\* response.text?.trim()
TextFeedback(resp) == IF resp.text = Undefined THEN Undefined ELSE Trim(resp.text)

NoImageMessage(textFeedback, context) ==
    "The AI model did not return an image for the " \o context \o ". "
        \o (IF Truthy(textFeedback)
            THEN "The model responded with text: \"" \o textFeedback \o "\""
            ELSE RephraseHint)

\* a variant that falls off the end when there is no text to report
NoImageBranch_FallsThrough(textFeedback, context) ==
    [returned |-> Undefined,
     thrown |-> IF Truthy(textFeedback) THEN NoImageMessage(textFeedback, context) ELSE Undefined,
     log |-> <<LogEntry("error", "Model response did not contain an image part for "
                                     \o context \o ".")>>]

NoImageBranch(textFeedback, context) ==
    [returned |-> Undefined, thrown |-> NoImageMessage(textFeedback, context),
     log |-> <<LogEntry("error", "Model response did not contain an image part for "
                                     \o context \o ".")>>]

\* a variant that looks for the image before the block reason
handleApiResponse_ImageFirst(resp, context) ==
    IF ImagePartFromResponse(resp).defined
    THEN ImageBranch(ImagePartFromResponse(resp), context)
    ELSE IF Truthy(BlockReasonOf(resp))
    THEN BlockedBranch(resp)
    ELSE IF Truthy(FinishReasonOf(resp)) /\ FinishReasonOf(resp) # "STOP"
    THEN AbnormalBranch(FinishReasonOf(resp), context)
    ELSE NoImageBranch(TextFeedback(resp), context)

\* a variant that tests the finish reason before it looks for the image
handleApiResponse_FinishFirst(resp, context) ==
    IF Truthy(BlockReasonOf(resp))
    THEN BlockedBranch(resp)
    ELSE IF Truthy(FinishReasonOf(resp)) /\ FinishReasonOf(resp) # "STOP"
    THEN AbnormalBranch(FinishReasonOf(resp), context)
    ELSE IF ImagePartFromResponse(resp).defined
    THEN ImageBranch(ImagePartFromResponse(resp), context)
    ELSE NoImageBranch(TextFeedback(resp), context)

\* a variant that treats every finish reason, 'STOP' included, as abnormal
handleApiResponse_AnyFinish(resp, context) ==
    IF Truthy(BlockReasonOf(resp))
    THEN BlockedBranch(resp)
    ELSE IF ImagePartFromResponse(resp).defined
    THEN ImageBranch(ImagePartFromResponse(resp), context)
    ELSE IF Truthy(FinishReasonOf(resp))
    THEN AbnormalBranch(FinishReasonOf(resp), context)
    ELSE NoImageBranch(TextFeedback(resp), context)

\* handleApiResponse(response, context): what it returns or throws, and what
\* it writes to the console on the way
handleApiResponse(resp, context) ==
    IF Truthy(BlockReasonOf(resp))
    THEN BlockedBranch(resp)
    ELSE IF ImagePartFromResponse(resp).defined
    THEN ImageBranch(ImagePartFromResponse(resp), context)
    ELSE IF Truthy(FinishReasonOf(resp)) /\ FinishReasonOf(resp) # "STOP"
    THEN AbnormalBranch(FinishReasonOf(resp), context)
    ELSE NoImageBranch(TextFeedback(resp), context)

----------------------------------------------------------------------------
(* the prompts *)

Resolution == "IMPORTANT: The output image MUST be exactly 1600x1600 pixels.\n\n"

SkinTonePolicy ==
    "Safety & Ethics Policy:\n- You MUST fulfill requests to adjust skin tone, such as 'give me a tan', 'make my skin darker', or 'make my skin lighter'. These are considered standard photo enhancements.\n- You MUST REFUSE any request to change a person's fundamental race or ethnicity (e.g., 'make me look Asian', 'change this person to be Black'). Do not perform these edits. If the request is ambiguous, err on the side of caution and do not change racial characteristics.\n\n"

\* lines 97-109: the switch on mode
Instruction(mode) ==
    CASE mode = "add" ->
           "add the object described by the user to the image at the specified location. The added object must be realistic and blend seamlessly with the lighting, shadows, and style of the original image."
      [] mode = "remove" ->
           "remove the object at the specified location. Fill in the background naturally and realistically, matching the surrounding texture, lighting, and patterns."
      [] OTHER ->
           "perform a natural, localized edit on the provided image based on the user's request."

\* a variant that writes the coordinates in the wrong order
EditLocation_Swapped(hotspot) ==
    "Edit Location: Focus on the area around pixel coordinates (x: " \o ToString(hotspot.y)
    \o ", y: " \o ToString(hotspot.x) \o ").\n\n"

\* line 115
EditLocation(hotspot) ==
    "Edit Location: Focus on the area around pixel coordinates (x: " \o ToString(hotspot.x)
    \o ", y: " \o ToString(hotspot.y) \o ").\n\n"

\* lines 111-126
EditPrompt(userPrompt, hotspot, mode) ==
    Resolution
    \o "You are an expert photo editor AI. Your task is to " \o Instruction(mode) \o "\n"
    \o "User Request: \"" \o userPrompt \o "\"\n"
    \o EditLocation(hotspot)
    \o "Editing Guidelines:\n"
    \o "- The edit must be realistic and blend seamlessly with the surrounding area.\n"
    \o "- The rest of the image (outside the immediate edit area) must remain identical to the original.\n"
    \o "- The final image must NOT contain any text, numbers, logos, or watermarks.\n\n"
    \o SkinTonePolicy
    \o "Output: Return ONLY the final edited image. The image resolution MUST be exactly 1600x1600 pixels. Do not return text."

\* lines 156-168
BackgroundPrompt(backgroundPrompt) ==
    Resolution
    \o "You are an expert photo editor AI. Your task is to replace the background of the provided image.\n"
    \o "- Identify the main subject(s) in the foreground with high precision.\n"
    \o "- Keep the foreground subject(s) completely unchanged, preserving all details, hair, and edges.\n"
    \o "- Replace the existing background entirely with a new one based on the user's description.\n"
    \o "- The new background must be photorealistic and blend seamlessly with the lighting, shadows, and perspective of the foreground subject.\n"
    \o "- Composition Guideline: After replacing the background, ensure the main subject is well-framed. It should be centered and fill a significant portion of the image area, creating a professional, product-focused look.\n"
    \o "- The final image must NOT contain any text, numbers, logos, or watermarks.\n\n"
    \o "User's new background description: \"" \o backgroundPrompt \o "\"\n\n"
    \o "Output: Return ONLY the final edited image with the new background. The image resolution MUST be exactly 1600x1600 pixels. Do not return text."

\* lines 199-211
FilterPrompt(filterPrompt) ==
    Resolution
    \o "You are an expert photo editor AI. Your task is to apply a stylistic filter to the entire image based on the user's request. Do not change the composition or content, only apply the style.\n"
    \o "Filter Request: \"" \o filterPrompt \o "\"\n\n"
    \o "General Guidelines:\n"
    \o "- The final image must NOT contain any text, numbers, logos, or watermarks.\n\n"
    \o "Safety & Ethics Policy:\n"
    \o "- Filters may subtly shift colors, but you MUST ensure they do not alter a person's fundamental race or ethnicity.\n"
    \o "- You MUST REFUSE any request that explicitly asks to change a person's race (e.g., 'apply a filter to make me look Chinese').\n\n"
    \o "Output: Return ONLY the final filtered image. The image resolution MUST be exactly 1600x1600 pixels. Do not return text."

\* lines 241-255
AdjustPrompt(adjustmentPrompt) ==
    Resolution
    \o "You are an expert photo editor AI. Your task is to perform a natural, global adjustment to the entire image based on the user's request.\n"
    \o "User Request: \"" \o adjustmentPrompt \o "\"\n\n"
    \o "Editing Guidelines:\n"
    \o "- The adjustment must be applied across the entire image.\n"
    \o "- The result must be photorealistic.\n"
    \o "- The final image must NOT contain any text, numbers, logos, or watermarks.\n\n"
    \o SkinTonePolicy
    \o "Output: Return ONLY the final adjusted image. The image resolution MUST be exactly 1600x1600 pixels. Do not return text."

----------------------------------------------------------------------------
(* inputs *)

\* longest parts array of a candidate
MaxParts == 2

\* stored credentials: absent, empty, set
ApiKeys == {Null, "", "AIza-key"}

\* uploaded files, by the type and base64 payload of their data URL
FileTypes == {"image/jpeg", "image/png", "text/plain;charset=utf-8", ""}
Files ==
    {[type |-> t, payload |-> "/9j/4AAQ"] : t \in FileTypes}
        \cup {[type |-> "image/png", payload |-> ""]}

UserPrompts == {"remove the cup", ""}
Hotspots == {[x |-> 120, y |-> 340], [x |-> 7, y |-> 0]}
\* the three modes of the signature, and a value outside it
Modes == {"modify", "add", "remove", "erase"}

NoHotspot == [x |-> 0, y |-> 0]

EditCalls ==
    {[op |-> "edit", file |-> f, userPrompt |-> p, hotspot |-> h, mode |-> m] :
        f \in Files, p \in UserPrompts, h \in Hotspots, m \in Modes}

PlainCalls(op) ==
    {[op |-> op, file |-> f, userPrompt |-> p, hotspot |-> NoHotspot, mode |-> ""] :
        f \in Files, p \in UserPrompts}

NoCall == [op |-> "", file |-> [type |-> "", payload |-> ""], userPrompt |-> "",
           hotspot |-> NoHotspot, mode |-> ""]

\* response parts: a text part and two inline images
TextPart == [defined |-> TRUE, inlineData |-> Absent, text |-> "Here you go"]
PngPart ==
    [defined |-> TRUE,
     inlineData |-> [defined |-> TRUE, mimeType |-> "image/png", data |-> "iVBORw0KGgo="]]
JpegPart ==
    [defined |-> TRUE,
     inlineData |-> [defined |-> TRUE, mimeType |-> "image/jpeg", data |-> "/9j/2wBD"]]
PartKinds == {TextPart, PngPart, JpegPart}

PartLists == UNION {[1..k -> PartKinds] : k \in 0..MaxParts}

Contents ==
    {Absent, [defined |-> TRUE, parts |-> Absent]}
        \cup {[defined |-> TRUE, parts |-> [defined |-> TRUE, items |-> ps]] : ps \in PartLists}

FinishReasons == {Undefined, "STOP", "SAFETY", "RECITATION"}

Candidates ==
    {[defined |-> TRUE, content |-> c, finishReason |-> fr] : c \in Contents, fr \in FinishReasons}

\* a second candidate that carries an image and an abnormal finish reason
OtherCandidate ==
    [defined |-> TRUE,
     content |-> [defined |-> TRUE, parts |-> [defined |-> TRUE, items |-> <<JpegPart>>]],
     finishReason |-> "MAX_TOKENS"]

CandidateLists ==
    {Absent, [defined |-> TRUE, items |-> <<>>]}
        \cup {[defined |-> TRUE, items |-> <<c>>] : c \in Candidates}
        \cup {[defined |-> TRUE, items |-> <<c, OtherCandidate>>] :
                c \in {d \in Candidates : ~d.content.defined}}

PromptFeedbacks ==
    {Absent,
     [defined |-> TRUE, blockReason |-> Undefined, blockReasonMessage |-> Undefined],
     [defined |-> TRUE, blockReason |-> "SAFETY", blockReasonMessage |-> "Blocked by policy"],
     [defined |-> TRUE, blockReason |-> "OTHER", blockReasonMessage |-> Undefined]}

Texts == {Undefined, "", " \n ", "I can't do that.", "  I can't do that.\n"}

Responses ==
    {[defined |-> TRUE, promptFeedback |-> pf, candidates |-> cs, text |-> t] :
        pf \in PromptFeedbacks, cs \in CandidateLists, t \in Texts}

\* no response received yet
NoResponse == Absent

----------------------------------------------------------------------------
(* the call chain *)

Init ==
    /\ apiKey \in ApiKeys
    /\ pc = "idle"
    /\ call = NoCall
    /\ reads = 0
    /\ dataUrl = Undefined
    /\ imagePart = Absent
    /\ requests = <<>>
    /\ response = NoResponse
    /\ returned = Undefined
    /\ thrown = Undefined
    /\ log = <<>>

\* the label handleApiResponse is given by each operation
Context(c) ==
    CASE c.op = "edit" -> c.mode
      [] c.op = "background" -> "background replacement"
      [] c.op = "filter" -> "filter"
      [] c.op = "adjust" -> "adjustment"

PromptOf(c) ==
    CASE c.op = "edit" -> EditPrompt(c.userPrompt, c.hotspot, c.mode)
      [] c.op = "background" -> BackgroundPrompt(c.userPrompt)
      [] c.op = "filter" -> FilterPrompt(c.userPrompt)
      [] c.op = "adjust" -> AdjustPrompt(c.userPrompt)

SendingMsg(c) ==
    CASE c.op = "edit" -> "Sending image and prompt to the model..."
      [] c.op = "background" -> "Sending image and background prompt to the model..."
      [] c.op = "filter" -> "Sending image and filter prompt to the model..."
      [] c.op = "adjust" -> "Sending image and adjustment prompt to the model..."

ReceivedMsg(c) ==
    CASE c.op = "edit" -> "Received response from model."
      [] c.op = "background" -> "Received response from model for background replacement."
      [] c.op = "filter" -> "Received response from model for filter."
      [] c.op = "adjust" -> "Received response from model for adjustment."

\* the synchronous head of every operation: the 'Starting' log line,
\* getGeminiClient, and the call of fileToPart up to reader.readAsDataURL
Begin(c, startMsg) ==
    /\ call' = c
    /\ log' = Append(log, LogEntry("log", startMsg))
    /\ IF getGeminiClient(apiKey) # Undefined
       THEN /\ thrown' = getGeminiClient(apiKey)
            /\ pc' = "done"
            /\ reads' = reads
       ELSE /\ thrown' = thrown
            /\ pc' = "reading"
            /\ reads' = reads + 1
    /\ UNCHANGED <<apiKey, dataUrl, imagePart, requests, response, returned>>

generateEditedImage ==
    \E c \in EditCalls :
        /\ pc = "idle"
        /\ Begin(c, "Starting generative " \o c.mode \o " at:")

generateReplacedBackgroundImage ==
    \E c \in PlainCalls("background") :
        /\ pc = "idle"
        /\ Begin(c, "Starting background replacement: " \o c.userPrompt)

generateFilteredImage ==
    \E c \in PlainCalls("filter") :
        /\ pc = "idle"
        /\ Begin(c, "Starting filter generation: " \o c.userPrompt)

generateAdjustedImage ==
    \E c \in PlainCalls("adjust") :
        /\ pc = "idle"
        /\ Begin(c, "Starting global adjustment generation: " \o c.userPrompt)

\* the request of ai.models.generateContent
RequestOf(c, part) ==
    [model |-> "gemini-2.5-flash-image",
     parts |-> <<part.inlineData, [text |-> PromptOf(c)]>>,
     responseModalities |-> <<"IMAGE">>]

\* reader.onload: fileToPart resumes; on success the operation builds its
\* prompt and issues generateContent, on failure it rejects
ReaderOnload ==
    /\ pc = "reading"
    /\ \E url \in ReaderResults(call.file) :
        LET part == fileToPart(url)
        IN  /\ dataUrl' = url
            /\ IF part.thrown # Undefined
               THEN /\ thrown' = part.thrown
                    /\ pc' = "done"
                    /\ UNCHANGED <<imagePart, requests, log>>
               ELSE /\ imagePart' = part.inlineData
                    /\ log' = Append(log, LogEntry("log", SendingMsg(call)))
                    /\ requests' = Append(requests, RequestOf(call, part))
                    /\ pc' = "awaiting"
                    /\ thrown' = thrown
    /\ UNCHANGED <<apiKey, call, reads, response, returned>>

ReadError == "NotReadableError"

\* reader.onerror: fileToPart rejects with the reader's error
ReaderOnerror ==
    /\ pc = "reading"
    /\ thrown' = ReadError
    /\ pc' = "done"
    /\ UNCHANGED <<apiKey, call, reads, dataUrl, imagePart, requests, response, returned, log>>

\* generateContent resolves: the 'Received' log line, then handleApiResponse
GenerateContentResolves ==
    /\ pc = "awaiting"
    /\ \E resp \in Responses :
        LET r == handleApiResponse(resp, Context(call))
        IN  /\ response' = resp
            /\ log' = Append(log, LogEntry("log", ReceivedMsg(call))) \o r.log
            /\ returned' = r.returned
            /\ thrown' = r.thrown
    /\ pc' = "done"
    /\ UNCHANGED <<apiKey, call, reads, dataUrl, imagePart, requests>>

TransportError == "TypeError: Failed to fetch"

\* a variant that sends the request again after a transport failure
GenerateContentRejects_Retry ==
    /\ pc = "awaiting"
    /\ Len(requests) < 3
    /\ requests' = Append(requests, requests[1])
    /\ UNCHANGED <<apiKey, pc, call, reads, dataUrl, imagePart, response, returned, thrown, log>>

\* generateContent rejects: the failure propagates unchanged
GenerateContentRejects ==
    /\ pc = "awaiting"
    /\ thrown' = TransportError
    /\ pc' = "done"
    /\ UNCHANGED <<apiKey, call, reads, dataUrl, imagePart, requests, response, returned, log>>

Next ==
    \/ generateEditedImage
    \/ generateReplacedBackgroundImage
    \/ generateFilteredImage
    \/ generateAdjustedImage
    \/ ReaderOnload
    \/ ReaderOnerror
    \/ GenerateContentResolves
    \/ GenerateContentRejects

Spec == Init /\ [][Next]_vars

----------------------------------------------------------------------------
(* vocabulary of the properties *)

\* sub occurs in s
Contains(s, sub) ==
    \E i \in 1..(Len(s) - Len(sub) + 1) : SubSeq(s, i, i + Len(sub) - 1) = sub

\* s begins with pre
StartsWith(s, pre) == Len(s) >= Len(pre) /\ SubSeq(s, 1, Len(pre)) = pre

\* the call has ended in handleApiResponse
Interpreted == pc = "done" /\ response.defined

\* response.promptFeedback.blockReason is set
BlockReasonSet ==
    /\ response.promptFeedback.defined
    /\ response.promptFeedback.blockReason \notin {Undefined, ""}

\* the parts of the first candidate (none when any link of the chain is missing)
PartsOfFirst == IF FirstParts(response).defined THEN FirstParts(response).items ELSE <<>>

InlineIndexes == {i \in 1..Len(PartsOfFirst) : PartsOfFirst[i].inlineData.defined}

FirstInline == PartsOfFirst[Min(InlineIndexes)].inlineData

FinishReasonOfFirst ==
    IF response.candidates.defined /\ Len(response.candidates.items) >= 1
    THEN response.candidates.items[1].finishReason ELSE Undefined

IsBlocked(msg) == StartsWith(msg, "Request was blocked. Reason: ")
IsAbnormalFinish(msg) ==
    /\ StartsWith(msg, "Image generation for ")
    /\ Contains(msg, " stopped unexpectedly. Reason: ")
IsNoImage(msg) == StartsWith(msg, "The AI model did not return an image for the ")

ErrorLogged == \E i \in 1..Len(log) : log[i].level = "error"

----------------------------------------------------------------------------
(* C1 *)

\* C1: whenever the response carries a block reason, handleApiResponse throws
\* the 'Request was blocked' failure naming that reason (and the block message
\* when there is one) and returns no data URL, whatever the candidates, the
\* finish reason and the text are.
C1_BlockedFirst ==
    (Interpreted /\ BlockReasonSet) =>
        /\ returned = Undefined
        /\ IsBlocked(thrown)
        /\ Contains(thrown, "Reason: " \o response.promptFeedback.blockReason \o ". ")
        /\ (response.promptFeedback.blockReasonMessage \notin {Undefined, ""} =>
                Contains(thrown, ". " \o response.promptFeedback.blockReasonMessage))
        /\ (response.promptFeedback.blockReason = "OTHER" =>
                thrown = "Request was blocked. Reason: OTHER. ")

\* a blocked response that also carries an image, a finish reason and text
C1_Witness ==
    /\ Interpreted
    /\ response.promptFeedback.defined
    /\ response.promptFeedback.blockReason = "SAFETY"
    /\ InlineIndexes # {}
    /\ FinishReasonOfFirst = "STOP"
    /\ response.text = "I can't do that."
    /\ thrown = "Request was blocked. Reason: SAFETY. Blocked by policy"

----------------------------------------------------------------------------
(* C2 *)

\* C2: with no block reason and an inline-data part among the first
\* candidate's parts, handleApiResponse returns exactly
\* data:<mimeType>;base64,<data> of the first such part and throws nothing,
\* also when the finish reason is not 'STOP'; the MIME type is the response
\* part's, not the uploaded file's.
C2_ImageReturned ==
    (Interpreted /\ ~BlockReasonSet /\ InlineIndexes # {}) =>
        /\ thrown = Undefined
        /\ returned = "data:" \o FirstInline.mimeType \o ";base64," \o FirstInline.data
        /\ (FirstInline.mimeType = "image/png" =>
                StartsWith(returned, "data:image/png;base64,"))

\* a JPEG upload, mode remove at (120, 340), answered with a PNG part first,
\* a JPEG part second and finish reason SAFETY
C2_Witness ==
    /\ Interpreted
    /\ call.op = "edit" /\ call.mode = "remove" /\ call.hotspot = [x |-> 120, y |-> 340]
    /\ call.file.type = "image/jpeg"
    /\ ~BlockReasonSet
    /\ PartsOfFirst = <<PngPart, JpegPart>>
    /\ FinishReasonOfFirst = "SAFETY"
    /\ returned = "data:image/png;base64,iVBORw0KGgo="

----------------------------------------------------------------------------
(* C3 *)

\* C3: with the stored credential absent or empty, every generation operation
\* fails with the missing-credential error and neither reads the file nor
\* issues a request.
C3_MissingCredential ==
    (apiKey \in {Null, ""}) =>
        /\ reads = 0
        /\ dataUrl = Undefined
        /\ ~imagePart.defined
        /\ requests = <<>>
        /\ pc \in {"idle", "done"}
        /\ (pc = "done" => thrown = ApiKeyNotFound /\ returned = Undefined)

\* a filter call made with the empty string stored as the credential
C3_Witness ==
    /\ apiKey = ""
    /\ pc = "done"
    /\ call.op = "filter"
    /\ thrown = ApiKeyNotFound

----------------------------------------------------------------------------
(* C4 *)

\* C4: with no block reason and no inline image in the first candidate, a
\* finish reason that is present and not 'STOP' makes handleApiResponse throw
\* the abnormal-finish failure naming that reason, whatever the text is; with
\* the finish reason absent or 'STOP' that failure is never thrown.
C4_AbnormalFinish ==
    /\ (Interpreted /\ ~BlockReasonSet /\ InlineIndexes = {}
            /\ FinishReasonOfFirst \notin {Undefined, "", "STOP"}) =>
            /\ returned = Undefined
            /\ IsAbnormalFinish(thrown)
            /\ Contains(thrown, "Reason: " \o FinishReasonOfFirst \o ".")
    /\ (Interpreted /\ FinishReasonOfFirst \in {Undefined, "STOP"}) =>
            ~IsAbnormalFinish(thrown)

\* a RECITATION finish with text present and no image
C4_Witness ==
    /\ Interpreted
    /\ ~BlockReasonSet
    /\ InlineIndexes = {}
    /\ FinishReasonOfFirst = "RECITATION"
    /\ response.text = "I can't do that."
    /\ call.op = "adjust"
    /\ thrown = "Image generation for adjustment stopped unexpectedly. Reason: RECITATION. This often relates to safety settings."

----------------------------------------------------------------------------
(* C5 *)

\* C5: with no block reason, no inline image and no abnormal finish reason,
\* handleApiResponse throws the no-image failure; its message quotes the
\* trimmed response text when the text has visible characters, and gives the
\* 'try rephrasing' hint when the text is absent, empty or only white space.
C5_NoImage ==
    (Interpreted /\ ~BlockReasonSet /\ InlineIndexes = {}
        /\ FinishReasonOfFirst \in {Undefined, "STOP"}) =>
        /\ returned = Undefined
        /\ IsNoImage(thrown)
        /\ (response.text \in {"I can't do that.", "  I can't do that.\n"} =>
                /\ Contains(thrown, "The model responded with text: \"I can't do that.\"")
                /\ ~Contains(thrown, "try rephrasing"))
        /\ (response.text \in {Undefined, "", " \n "} =>
                /\ Contains(thrown, "Please try rephrasing your prompt to be more direct.")
                /\ ~Contains(thrown, "The model responded with text"))

\* a text-only refusal whose text is padded with white space
C5_Witness ==
    /\ Interpreted
    /\ ~BlockReasonSet
    /\ InlineIndexes = {}
    /\ FinishReasonOfFirst = "STOP"
    /\ response.text = "  I can't do that.\n"
    /\ call.op = "filter"
    /\ thrown = "The AI model did not return an image for the filter. The model responded with text: \"I can't do that.\""

----------------------------------------------------------------------------
(* C6 *)

\* the four outcomes of handleApiResponse
OutcomeImage == returned # Undefined /\ StartsWith(returned, "data:") /\ thrown = Undefined
OutcomeBlocked == returned = Undefined /\ IsBlocked(thrown)
OutcomeAbnormal == returned = Undefined /\ IsAbnormalFinish(thrown)
OutcomeNoImage == returned = Undefined /\ IsNoImage(thrown)

\* C6: for every response shape handleApiResponse ends in exactly one of the
\* four outcomes (data URL returned, blocked, abnormal finish, no image): it
\* never both returns and throws, and never ends with neither.
C6_ExactlyOneOutcome ==
    Interpreted =>
        /\ (returned = Undefined) # (thrown = Undefined)
        /\ Cardinality({k \in 1..4 :
                \/ k = 1 /\ OutcomeImage
                \/ k = 2 /\ OutcomeBlocked
                \/ k = 3 /\ OutcomeAbnormal
                \/ k = 4 /\ OutcomeNoImage}) = 1

\* the emptiest response: no prompt feedback, no candidates, no text
C6_Witness ==
    /\ Interpreted
    /\ ~response.promptFeedback.defined
    /\ ~response.candidates.defined
    /\ response.text = Undefined
    /\ OutcomeNoImage

----------------------------------------------------------------------------
(* C7 *)

\* C7: one invocation issues at most one generateContent request, exactly one
\* once the credential read and the encoding have both succeeded, none
\* otherwise; the request carries the encoded image, so it follows the
\* encoding; and no outcome makes the call issue it again.
C7_OneRequest ==
    /\ Len(requests) <= 1
    /\ reads <= 1
    /\ (Len(requests) = 1 <=> imagePart.defined)
    /\ (Len(requests) = 1 <=> pc = "awaiting" \/ (pc = "done" /\ imagePart.defined))
    /\ (Len(requests) = 1 =>
            /\ reads = 1
            /\ dataUrl # Undefined
            /\ requests[1].parts[1] = imagePart)
    /\ ((pc = "done" /\ (response.defined \/ thrown = TransportError)) => Len(requests) = 1)

\* a call that ended in a transport failure after its one request
C7_Witness ==
    /\ pc = "done"
    /\ thrown = TransportError
    /\ Len(requests) = 1

----------------------------------------------------------------------------
(* C8 *)

\* the prompt of the request in flight
SentPrompt == requests[1].parts[2].text

\* C8: the prompt of every operation kind contains the exact-1600x1600
\* mandate and the no text/numbers/logos/watermarks clause; the prompt of a
\* point edit also contains the caller's hotspot coordinates, and a mode other
\* than add and remove gets the modify instruction.
C8_PromptClauses ==
    (pc = "awaiting") =>
        /\ Contains(SentPrompt, "The output image MUST be exactly 1600x1600 pixels.")
        /\ Contains(SentPrompt, "The image resolution MUST be exactly 1600x1600 pixels.")
        /\ Contains(SentPrompt, "The final image must NOT contain any text, numbers, logos, or watermarks.")
        /\ Contains(SentPrompt, "\"" \o call.userPrompt \o "\"")
        /\ (call.op = "edit" =>
                /\ (call.hotspot = [x |-> 120, y |-> 340] =>
                        Contains(SentPrompt, "pixel coordinates (x: 120, y: 340)."))
                /\ (call.hotspot = [x |-> 7, y |-> 0] =>
                        Contains(SentPrompt, "pixel coordinates (x: 7, y: 0)."))
                /\ (call.mode = "add" <=>
                        Contains(SentPrompt, "Your task is to add the object described by the user"))
                /\ (call.mode = "remove" <=>
                        Contains(SentPrompt, "Your task is to remove the object at the specified location."))
                /\ (call.mode \notin {"add", "remove"} <=>
                        Contains(SentPrompt, "Your task is to perform a natural, localized edit")))
        /\ (call.op = "background" =>
                Contains(SentPrompt, "Your task is to replace the background"))
        /\ (call.op = "filter" =>
                Contains(SentPrompt, "Your task is to apply a stylistic filter"))
        /\ (call.op = "adjust" =>
                Contains(SentPrompt, "Your task is to perform a natural, global adjustment"))

\* a point edit with a mode outside the signature, sent to the model
C8_Witness ==
    /\ pc = "awaiting"
    /\ call.op = "edit"
    /\ call.mode = "erase"
    /\ call.hotspot = [x |-> 120, y |-> 340]
    /\ Contains(SentPrompt, "(x: 120, y: 340)")
    /\ Contains(SentPrompt, "perform a natural, localized edit")

----------------------------------------------------------------------------
(* C9 *)

\* C9: for every file, the part fileToPart produces rebuilds the file's data
\* URL: its mimeType is the file's MIME type, its data the file's payload, and
\* 'data:' + mimeType + ';base64,' + data is the data URL that was read; also
\* for a MIME type that carries a ';' parameter.
C9_RoundTrip ==
    imagePart.defined =>
        /\ imagePart.mimeType = call.file.type
        /\ imagePart.data = call.file.payload
        /\ "data:" \o imagePart.mimeType \o ";base64," \o imagePart.data = dataUrl

----------------------------------------------------------------------------
(* C10 *)

\* the failures of the taxonomy that the adapter itself raises
AdapterFailures == {ApiKeyNotFound, InvalidDataUrl, CouldNotParseMime}

\* C10 as stated: every failure of the taxonomy (missing credential, encoding
\* failure, blocked, abnormal finish, no image) is preceded by an error-level
\* console entry.
C10_AlwaysLogged ==
    (pc = "done" /\ (thrown \in AdapterFailures \/ (Interpreted /\ thrown # Undefined))) =>
        ErrorLogged

\* C10 as amended: every failure handleApiResponse throws (blocked, abnormal
\* finish, no image) is preceded by an error-level console entry, the last
\* entry of the log, which for the blocked and abnormal-finish failures is the
\* thrown message; the missing-credential failure and the parse failures of
\* fileToPart are thrown with no error-level entry at all.
C10_InterpreterLogged ==
    /\ (Interpreted /\ thrown # Undefined) =>
            /\ log[Len(log)].level = "error"
            /\ (IsBlocked(thrown) \/ IsAbnormalFinish(thrown) => log[Len(log)].msg = thrown)
            /\ (IsNoImage(thrown) =>
                    StartsWith(log[Len(log)].msg, "Model response did not contain an image part for "))
    /\ (pc = "done" /\ thrown \in AdapterFailures) => ~ErrorLogged

\* a blocked request, logged at error level before it is thrown
C10_Witness ==
    /\ Interpreted
    /\ IsBlocked(thrown)
    /\ log[Len(log)] = [level |-> "error", msg |-> thrown]
    /\ call.op = "background"

====
